---- MODULE Spec2Model ----
(***************************************************************************)
(* A model of the Whisper native-messaging host:                           *)
(*   whisper_host.py        framing (send_message / read_message) and the  *)
(*                          dispatch loop                                  *)
(*   whisper_host_utils.py  folder-prefix sanitisation, the recording      *)
(*                          bundle writer, the history store, folder open  *)
(*                                                                         *)
(* Strings whose characters matter (tab titles, transcripts) are sequences *)
(* of one-character strings.  Paths are sequences of path segments, with   *)
(* "/" as first segment for an absolute path.  Python's None is the string *)
(* "None" for scalar fields and the one-element sequence <<"None">> for    *)
(* character strings (no real character is four letters long).             *)
(***************************************************************************)
EXTENDS Naturals, Integers, Sequences, FiniteSets, TLC

VARIABLES
    pc,        \* host position: "read" | "dispatch" | "done" | "crashed"
    nread,     \* number of frames (or stream ends) taken from stdin so far
    msg,       \* the message returned by read_message, while pc = "dispatch"
    last,      \* what the most recent loop iteration read and which branch ran
    stdout,    \* frames written and flushed to the browser, in order
    outbuf,    \* frames written to sys.stdout.buffer and not yet flushed
    dirs,      \* directories that exist (normalised absolute paths)
    files,     \* regular files that exist: normalised absolute path -> content
    clock,     \* wall clock, in seconds, as last read by datetime.now()
    opened,    \* folders handed to the OS file manager, in order
    closed,    \* stdin has reached its end
    nfaults,   \* operating-system refusals (failed mkdir, write, launch) so far
    persisted, \* history: the recordings persisted without any refusal, each
               \* with the outputDir its message asked for
    platform,  \* platform.system() of the machine the host runs on
    pfPc,      \* sanitiser harness: "idle" | "call" | "done"
    pfTitle,   \* sanitiser harness: the title given to _build_folder_prefix
    pfResult,  \* sanitiser harness: the prefix it returned
    hsPc,      \* history harness: "idle" | "call" | "done"
    hsFile,    \* history harness: the history file ([exists, lines])
    hsLimit,   \* history harness: the limit given to load_history_entries
    hsResult,  \* history harness: what load_history_entries returned
    psPc,      \* writer harness: "idle" | "call" | "done"
    psArgs,    \* writer harness: the arguments given to save_recording_bundle
    psResult,  \* writer harness: what it returned ([err, result])
    smWire,    \* sender harness: the bytes send_message has put on stdout
    smSent,    \* sender harness: the messages given to send_message, in order
    rcLog      \* recorder harness: the calls of save_recording_bundle so far

vars == <<pc, nread, closed, msg, last, stdout, outbuf, dirs, files, clock,
          opened, nfaults, persisted, platform, pfPc, pfTitle, pfResult,
          hsPc, hsFile, hsLimit, hsResult, psPc, psArgs, psResult,
          smWire, smSent, rcLog>>

hostVars == <<pc, nread, closed, msg, last, stdout, outbuf, dirs, files, clock,
              opened, nfaults, persisted, platform>>

pfVars == <<pfPc, pfTitle, pfResult>>

hsVars == <<hsPc, hsFile, hsLimit, hsResult>>

psVars == <<psPc, psArgs, psResult>>

smVars == <<smWire, smSent>>

harnessVars == <<pfVars, hsVars, psVars, smVars, rcLog>>

-----------------------------------------------------------------------------
(* Bounds of the model.                                                    *)

\* frames the browser sends before the model stops reading
MaxFrames == 2

\* seconds the wall clock may advance
MaxClock == 1

\* operations the operating system may refuse in one run
MaxFaults == 1

\* length of the free part of an enumerated tab title
MaxTail == 4

\* lines of an enumerated history file
MaxLines == 3

\* latest second of the clock in the createdAt of an enumerated history line
MaxStamp == 2

\* characters of an enumerated transcript
MaxText == 2

-----------------------------------------------------------------------------
(* Characters and Python string methods.                                   *)

None == "None"

NoneStr == <<"None">>

\* characters matched by \w (letters, digits, underscore)
WordChars ==
    {"a", "b", "e", "h", "i", "l", "m", "n", "o", "r", "t", "y",
     "A", "M", "N", "T", "c", "d", "g", "7", "_"}

\* characters matched by \s
SpaceChars == {" ", "\t", "\n", "\r"}

\* characters forbidden in file names on common file systems
ForbiddenChars == {"\\", "/", ":", "*", "?", "\"", "<", ">", "|", "NUL"}

Min(a, b) == IF a < b THEN a ELSE b

\* mutant of Take: nothing is cut off
TakeAll(s, n) == s

Take(s, n) == SubSeq(s, 1, Min(n, Len(s)))

RECURSIVE LStrip(_, _)
LStrip(s, chars) ==
    IF s # <<>> /\ Head(s) \in chars THEN LStrip(Tail(s), chars) ELSE s

RECURSIVE RStrip(_, _)
RStrip(s, chars) ==
    IF s # <<>> /\ s[Len(s)] \in chars
    THEN RStrip(SubSeq(s, 1, Len(s) - 1), chars)
    ELSE s

\* str.strip(chars)
StripChars(s, chars) == RStrip(LStrip(s, chars), chars)

\* str.strip()
StripWs(s) == StripChars(s, SpaceChars)

-----------------------------------------------------------------------------
(* _build_folder_prefix: tab title -> folder-name prefix.                  *)

MAX_PREFIX_CHARS == 60

Recording == <<"r", "e", "c", "o", "r", "d", "i", "n", "g">>

\* re.sub(r'[^\w\s-]', '', s): every character that is not a word character,
\* whitespace or a hyphen is deleted
RemoveUnsafe(s) ==
    SelectSeq(s, LAMBDA c : c \in WordChars \/ c \in SpaceChars \/ c = "-")

\* re.sub(r'\s+', ' ', s): every maximal run of whitespace becomes one space
RECURSIVE CollapseWs(_)
CollapseWs(s) ==
    IF s = <<>> THEN <<>>
    ELSE IF Head(s) \in SpaceChars
         THEN <<" ">> \o CollapseWs(LStrip(Tail(s), SpaceChars))
         ELSE <<Head(s)>> \o CollapseWs(Tail(s))

\* `not tab_title or not tab_title.strip()`
TitleIsBlank(tab_title) ==
    tab_title = NoneStr \/ tab_title = <<>> \/ StripWs(tab_title) = <<>>

BuildFolderPrefix(tab_title) ==
    IF TitleIsBlank(tab_title) THEN Recording
    ELSE LET stripped  == StripWs(tab_title)
             safe      == RemoveUnsafe(stripped)
             collapsed == StripWs(CollapseWs(safe))
             cleaned   == StripChars(collapsed, {".", "-", "_"})
             trimmed   == StripWs(Take(cleaned, MAX_PREFIX_CHARS))
         IN  IF trimmed = <<>> THEN Recording ELSE trimmed

-----------------------------------------------------------------------------
(* The titles the sanitiser is run on: a run of 'a' of a length around     *)
(* MAX_PREFIX_CHARS (or none) followed by every string of at most MaxTail  *)
(* characters of TitleAlphabet, and the titles of the repository's tests.  *)

TitleAlphabet == {"a", "_", "-", ".", " ", "/"}

RECURSIVE SeqsUpTo(_, _)
SeqsUpTo(S, n) ==
    IF n = 0 THEN {<<>>}
    ELSE LET shorter == SeqsUpTo(S, n - 1)
         IN  shorter \cup {Append(t, c) : t \in shorter, c \in S}

Pad(n) == [i \in 1..n |-> "a"]

PadLens == {0, MAX_PREFIX_CHARS - 3, MAX_PREFIX_CHARS - 2,
            MAX_PREFIX_CHARS - 1, MAX_PREFIX_CHARS}

MyTabName == <<"M", "y", " ", "T", "a", "b", " ", "/", " ", "N", "a", "m", "e">>

AnotherTitle == <<"A", "n", "o", "t", "h", "e", "r", ":", "T", "i", "t", "l", "e">>

TestTitles == {NoneStr, MyTabName, AnotherTitle}

\* titles with tabs among their whitespace
TabbedTitles ==
    {<<"\t">>, <<" ", "\t", " ">>, <<"a", "\t", "\t", " ", "b">>,
     <<"\t", "a", "\t">>, <<"/", "\t", ".">>}

Titles ==
    TestTitles \cup TabbedTitles \cup
    {Pad(n) \o t : n \in PadLens, t \in SeqsUpTo(TitleAlphabet, MaxTail)}

-----------------------------------------------------------------------------
(* Paths (pathlib.Path) and the file system.  A path is a sequence of      *)
(* segments; a segment is a sequence of strings (a plain name is one       *)
(* string, a bundle folder name is its prefix's characters followed by     *)
(* "-", the timestamp, "-" and the random token).                          *)

RootSeg == <<"/">>

UpSeg == <<"..">>

NonePath == <<NoneStr>>

\* the host's working directory
Cwd == <<RootSeg, <<"home">>>>

\* the default of every output_dir parameter
DefaultOutputDir == <<<<"recordings">>>>

IsAbsolute(p) == p # <<>> /\ p[1] = RootSeg

\* pathlib's `base / p`: an absolute right operand replaces the left one
Join(base, p) == IF IsAbsolute(p) THEN p ELSE base \o p

RECURSIVE Resolve(_, _)
Resolve(acc, rest) ==
    IF rest = <<>> THEN acc
    ELSE IF Head(rest) = UpSeg
         THEN Resolve(IF Len(acc) > 1 THEN SubSeq(acc, 1, Len(acc) - 1) ELSE acc,
                      Tail(rest))
         ELSE Resolve(Append(acc, Head(rest)), Tail(rest))

\* the file-system object a path names: relative paths start at the working
\* directory and every ".." steps to the parent
RealPath(p) == Resolve(<<>>, Join(Cwd, p))

Parent(rp) == SubSeq(rp, 1, Len(rp) - 1)

Ancestors(rp) == {SubSeq(rp, 1, k) : k \in 1..Len(rp)}

IsPrefixOf(a, b) == Len(a) <= Len(b) /\ SubSeq(b, 1, Len(a)) = a

\* path p names something inside (or equal to) directory root
Inside(p, root) == IsPrefixOf(RealPath(root), RealPath(p))

\* Path.mkdir(parents=True, exist_ok=True) succeeds unless a regular file is
\* in the way
MkdirOk(d, f, p) == Ancestors(RealPath(p)) \cap DOMAIN f = {}

Mkdir(d, p) == d \cup Ancestors(RealPath(p))

\* open(p, "w" / "wb" / "a") succeeds when the parent directory exists and p
\* is not itself a directory
OpenForWriteOk(d, f, p) ==
    /\ RealPath(p) \notin d
    /\ Parent(RealPath(p)) \in d

PutFile(f, p, content) ==
    [q \in DOMAIN f \cup {RealPath(p)} |->
        IF q = RealPath(p) THEN content ELSE f[q]]

Exists(d, f, p) == RealPath(p) \in d \/ RealPath(p) \in DOMAIN f

IsFile(f, p) == RealPath(p) \in DOMAIN f

\* platform.system(); "Darwin" behaves as "Linux" in all that is modelled
Platforms == {"Linux", "Windows"}

\* os.linesep
LineSep(system) == IF system = "Windows" THEN <<"\r", "\n">> ELSE <<"\n">>

\* what open(p, "w").write(text) puts in the file: every "\n" is written as
\* os.linesep
RECURSIVE TextModeWrite(_, _)
TextModeWrite(text, linesep) ==
    IF text = <<>> THEN <<>>
    ELSE IF Head(text) = "\n" THEN linesep \o TextModeWrite(Tail(text), linesep)
    ELSE <<Head(text)>> \o TextModeWrite(Tail(text), linesep)

\* what open(p, "r").read() returns for the characters in the file: "\r\n"
\* and a lone "\r" are read as "\n"
RECURSIVE TextModeRead(_)
TextModeRead(data) ==
    IF data = <<>> THEN <<>>
    ELSE IF Head(data) = "\r"
         THEN <<"\n">> \o TextModeRead(IF Len(data) > 1 /\ data[2] = "\n"
                                        THEN Tail(Tail(data)) ELSE Tail(data))
         ELSE <<Head(data)>> \o TextModeRead(Tail(data))

\* the timestamp strftime("%Y%m%d-%H%M%S") gives at each second of the clock
Stamps == <<"20240101-120000", "20240101-120001", "20240101-120002",
            "20240101-120003", "20240101-120004", "20240101-120005">>

Timestamp(now) == Stamps[now + 1]

\* uuid.uuid4().hex[:6]
Tokens == {"0a1b2c", "3d4e5f"}

-----------------------------------------------------------------------------
(* save_recording_bundle.  Its steps run on a record st = [d, f, err]: the *)
(* directories, the files, and the exception raised so far (None: none).   *)
(* `fault` names the step at which the operating system refuses (a full or *)
(* read-only disk), "none" when it does not.                               *)

PersistFaults ==
    {"none", "mkdir_root", "mkdir_tab", "mkdir_folder", "write_audio",
     "write_text", "write_meta", "append_history"}

StMkdir(st, p, refused) ==
    IF st.err # None THEN st
    ELSE IF refused \/ ~MkdirOk(st.d, st.f, p)
         THEN [st EXCEPT !.err = "OSError"]
         ELSE [st EXCEPT !.d = Mkdir(st.d, p)]

StWrite(st, p, content, refused) ==
    IF st.err # None THEN st
    ELSE IF refused \/ ~OpenForWriteOk(st.d, st.f, p)
         THEN [st EXCEPT !.err = "OSError"]
         ELSE [st EXCEPT !.f = PutFile(st.f, p, content)]

\* the lines already in a history file (none when there is no such file)
HistoryLines(f, p) ==
    IF IsFile(f, p) /\ f[RealPath(p)].kind = "jsonl" THEN f[RealPath(p)].lines
    ELSE <<>>

\* mutant of StAppendHistory: the line is appended whatever happened before
StAppendAlways(st, p, entry, refused) ==
    IF refused \/ ~OpenForWriteOk(st.d, st.f, p)
    THEN st
    ELSE [st EXCEPT !.f = PutFile(st.f, p,
            [kind |-> "jsonl", lines |-> Append(HistoryLines(st.f, p), entry)])]

\* lines 150-155: an OSError while appending is logged and swallowed
StAppendHistory(st, p, entry, refused) ==
    IF st.err # None THEN st
    ELSE IF refused \/ ~OpenForWriteOk(st.d, st.f, p)
         THEN st
         ELSE [st EXCEPT !.f = PutFile(st.f, p,
                 [kind |-> "jsonl", lines |-> Append(HistoryLines(st.f, p), entry)])]

\* `if tab_uuid:`
Truthy(tab_uuid) == tab_uuid # NonePath /\ tab_uuid # <<>>

\* a JSON number where a string is expected; `Path / 5` raises TypeError
IntValue == <<<<"5">>, <<"int">>>>

IsStr(v) == v # IntValue

FolderName(prefix, now, token) == prefix \o <<"-", Timestamp(now), "-", token>>

\* line 105: `output_dir_path / tab_uuid` raises TypeError unless tab_uuid is
\* a string
StJoinTab(st, tab_uuid) ==
    IF st.err = None /\ Truthy(tab_uuid) /\ ~IsStr(tab_uuid)
    THEN [st EXCEPT !.err = "TypeError"]
    ELSE st

\* lines 104-108
TabRoot(output_dir, tab_uuid) ==
    IF Truthy(tab_uuid) THEN Join(output_dir, tab_uuid) ELSE output_dir

\* lines 110-114
FolderPath(output_dir, tab_title, tab_uuid, now, token) ==
    Append(TabRoot(output_dir, tab_uuid),
           FolderName(BuildFolderPrefix(tab_title), now, token))

\* lines 116-118
AudioPath(folder_path) == Append(folder_path, <<"audio.webm">>)

TextPath(folder_path) == Append(folder_path, <<"transcript.txt">>)

\* line 118
HistoryPath(output_dir, tab_uuid, tab_root) ==
    Append(IF Truthy(tab_uuid) THEN tab_root ELSE output_dir, <<"history.jsonl">>)

\* line 136
MetadataPath(tab_root) == Append(tab_root, <<"tab.json">>)

\* lines 126-135
Metadata(tab_title, tab_uuid, tab_id, tab_url, now, folder_path) ==
    [tabUUID |-> tab_uuid, lastTabId |-> tab_id, lastTitle |-> tab_title,
     lastURL |-> tab_url, updatedAt |-> now, lastRecordingFolder |-> folder_path]

\* line 140: datetime.now().isoformat(timespec="seconds") + "Z".  A createdAt
\* value is [form, t]: "iso-z" is this format for second t of the clock
IsoZ(now) == [form |-> "iso-z", t |-> now]

\* lines 139-148
HistoryEntry(tab_title, tab_uuid, tab_id, tab_url, now, folder_path) ==
    [createdAt |-> IsoZ(now), folder |-> folder_path, audio |-> AudioPath(folder_path),
     text |-> TextPath(folder_path), tabUUID |-> tab_uuid, tabId |-> tab_id,
     tabTitle |-> tab_title, tabURL |-> tab_url]

\* lines 157-166
SavedPaths(tab_uuid, tab_root, folder_path) ==
    IF Truthy(tab_uuid)
    THEN [folder |-> folder_path, audio |-> AudioPath(folder_path),
          text |-> TextPath(folder_path), tabFolder |-> tab_root,
          metadata |-> MetadataPath(tab_root)]
    ELSE [folder |-> folder_path, audio |-> AudioPath(folder_path),
          text |-> TextPath(folder_path)]

BundleOutcome(st, result) ==
    [d |-> st.d, f |-> st.f, err |-> st.err, result |-> result]

\* lines 101-155 on the paths computed above
WriteBundle(d, f, audio_bytes, transcript_text, output_dir, tab_title, tab_uuid, tab_id, tab_url, now, fault, tab_root, folder_path) ==
    LET s1 == StMkdir([d |-> d, f |-> f, err |-> None], output_dir,
                      fault = "mkdir_root")
        s2 == StMkdir(StJoinTab(s1, tab_uuid), tab_root, fault = "mkdir_tab")
        s3 == StMkdir(s2, folder_path, fault = "mkdir_folder")
        s4 == StWrite(s3, AudioPath(folder_path),
                      [kind |-> "bytes", data |-> audio_bytes],
                      fault = "write_audio")
        s5 == StWrite(s4, TextPath(folder_path),
                      [kind |-> "text",
                       data |-> TextModeWrite(transcript_text, LineSep(platform))],
                      fault = "write_text")
        s6 == IF Truthy(tab_uuid)
              THEN StWrite(s5, MetadataPath(tab_root),
                           [kind |-> "json",
                            data |-> Metadata(tab_title, tab_uuid, tab_id,
                                              tab_url, now, folder_path)],
                           fault = "write_meta")
              ELSE s5
        s7 == StAppendHistory(s6, HistoryPath(output_dir, tab_uuid, tab_root),
                              HistoryEntry(tab_title, tab_uuid, tab_id, tab_url,
                                           now, folder_path),
                              fault = "append_history")
    IN  BundleOutcome(s7, SavedPaths(tab_uuid, tab_root, folder_path))

\* returns [d, f, err, result]
SaveRecordingBundle(d, f, audio_bytes, transcript_text, output_dir, tab_title, tab_uuid, tab_id, tab_url, now, token, fault) ==
    WriteBundle(d, f, audio_bytes, transcript_text, output_dir, tab_title,
                tab_uuid, tab_id, tab_url, now, fault,
                TabRoot(output_dir, tab_uuid),
                FolderPath(output_dir, tab_title, tab_uuid, now, token))

-----------------------------------------------------------------------------
(* open_specific_folder, open_recordings_folder.  `refused` says whether   *)
(* launching the file manager fails.  Each returns [err, folder, d]: the   *)
(* exception raised (None: none), the folder opened, the directories.      *)

\* mutant of OpenExistingFolder: the folder is opened without looking
\* whether it exists
OpenUnchecked(d, f, folder_path, refused) ==
    IF refused
    THEN [err |-> "RuntimeError", folder |-> folder_path, launched |-> FALSE]
    ELSE [err |-> None, folder |-> folder_path, launched |-> TRUE]

\* lines 196-215: the part of open_specific_folder after the emptiness test
OpenExistingFolder(d, f, folder_path, refused) ==
    LET folder == IF IsFile(f, folder_path)
                  THEN SubSeq(folder_path, 1, Len(folder_path) - 1)
                  ELSE folder_path
    IN  IF ~Exists(d, f, folder)
        THEN [err |-> "FileNotFoundError", folder |-> folder, launched |-> FALSE]
        ELSE IF refused
             THEN [err |-> "RuntimeError", folder |-> folder, launched |-> FALSE]
             ELSE [err |-> None, folder |-> folder, launched |-> TRUE]

OpenSpecificFolder(d, f, folder_path, refused) ==
    IF ~Truthy(folder_path)
    THEN [err |-> "ValueError", folder |-> folder_path, launched |-> FALSE]
    ELSE OpenExistingFolder(d, f, folder_path, refused)

\* ensure_recordings_root, then open_specific_folder on the Path (a Path is
\* always truthy); any failure of the latter is re-raised as RuntimeError
OpenRecordingsFolder(d, f, output_dir, mkdirRefused, refused) ==
    IF mkdirRefused \/ ~MkdirOk(d, f, output_dir)
    THEN [err |-> "OSError", folder |-> output_dir, launched |-> FALSE, d |-> d]
    ELSE LET r == OpenExistingFolder(Mkdir(d, output_dir), f, output_dir, refused)
         IN  [err |-> IF r.err = None THEN None ELSE "RuntimeError",
              folder |-> r.folder, launched |-> r.launched,
              d |-> Mkdir(d, output_dir)]

-----------------------------------------------------------------------------
(* The history store: _resolve_history_path, load_history_entries.         *)

ResolveHistoryPath(tab_uuid, output_dir) ==
    IF Truthy(tab_uuid)
    THEN Append(Join(output_dir, tab_uuid), <<"history.jsonl">>)
    ELSE Append(output_dir, <<"history.jsonl">>)

\* datetime.min, a datetime without time zone
DatetimeMin == [aware |-> FALSE, t |-> -1]

\* _parse_history_timestamp.  The other forms of a createdAt value: "missing"
\* (no such key), "empty" (""), "garbage" (a string fromisoformat rejects)
\* and "number" (a JSON number).  A string ending in "Z" parses to a
\* datetime with time zone UTC.
ParseHistoryTimestamp(value) ==
    IF value.form = "iso-z" THEN [aware |-> TRUE, t |-> value.t] ELSE DatetimeMin

\* the exception entries.sort raises (None: none): a number has no
\* .replace (AttributeError, which `except ValueError` lets through), and
\* datetimes with and without time zone do not compare (TypeError)
SortError(entries) ==
    IF \E i \in DOMAIN entries : entries[i].createdAt.form = "number"
    THEN "AttributeError"
    ELSE IF \E i, j \in DOMAIN entries :
                ParseHistoryTimestamp(entries[i].createdAt).aware
                    # ParseHistoryTimestamp(entries[j].createdAt).aware
         THEN "TypeError"
         ELSE None

\* entries.sort(key=..., reverse=True): descending and stable
RECURSIVE InsertDesc(_, _)
InsertDesc(sorted, e) ==
    IF sorted = <<>> THEN <<e>>
    ELSE IF ParseHistoryTimestamp(Head(sorted).createdAt).t
                >= ParseHistoryTimestamp(e.createdAt).t
         THEN <<Head(sorted)>> \o InsertDesc(Tail(sorted), e)
         ELSE <<e>> \o sorted

RECURSIVE SortDesc(_)
SortDesc(entries) ==
    IF entries = <<>> THEN <<>>
    ELSE InsertDesc(SortDesc(SubSeq(entries, 1, Len(entries) - 1)),
                    entries[Len(entries)])

\* `isinstance(limit, int)`: a limit is [type, val], type being the JSON
\* type it arrived as ("none" when absent); JSON true and false are Python
\* bools, which are ints (1 and 0)
IsInstanceInt(limit) == limit.type \in {"int", "bool"}

\* `isinstance(limit, int) and limit > 0`
ApplyLimit(entries, limit) ==
    IF IsInstanceInt(limit) /\ limit.val > 0 THEN Take(entries, limit.val)
    ELSE entries

\* lines 272-289: attach the trimmed transcript when its file can be read
Enrich(f, entry) ==
    IF IsFile(f, entry.text) /\ f[RealPath(entry.text)].kind = "text"
    THEN [entry |-> entry, hasTranscript |-> TRUE,
          transcript |-> StripWs(TextModeRead(f[RealPath(entry.text)].data))]
    ELSE [entry |-> entry, hasTranscript |-> FALSE, transcript |-> <<>>]

\* the entry objects in the history file (none when there is no such file)
ReadHistory(f, history_path) ==
    IF IsFile(f, history_path) /\ f[RealPath(history_path)].kind = "jsonl"
    THEN f[RealPath(history_path)].lines
    ELSE <<>>

\* lines 261-289 on the entries read
SortedHistory(f, entries, limit, include_transcripts) ==
    IF SortError(entries) # None
    THEN [err |-> SortError(entries), entries |-> <<>>]
    ELSE [err |-> None,
          entries |-> [i \in 1..Len(ApplyLimit(SortDesc(entries), limit)) |->
              IF include_transcripts
              THEN Enrich(f, ApplyLimit(SortDesc(entries), limit)[i])
              ELSE [entry |-> ApplyLimit(SortDesc(entries), limit)[i],
                    hasTranscript |-> FALSE, transcript |-> <<>>]]]

\* returns [err, entries]
LoadHistoryEntries(d, f, tab_uuid, output_dir, limit, include_transcripts) ==
    IF Truthy(tab_uuid) /\ ~IsStr(tab_uuid)
    THEN [err |-> "TypeError", entries |-> <<>>]
    ELSE SortedHistory(f, ReadHistory(f, ResolveHistoryPath(tab_uuid, output_dir)),
                       limit, include_transcripts)

-----------------------------------------------------------------------------
(* transcribe_audio_chunk and its collaborators.  An audio chunk is named  *)
(* by the bytes its base64 text stands for.                                *)

Absent == "absent"

AudioChunks == {"b64:speech", "b64:silence", "b64:noframes", "b64:badpadding"}

\* base64.b64decode: [err, bytes]
B64Decode(chunk) ==
    CASE chunk = "b64:speech"   -> [err |-> None, bytes |-> "speech.webm"]
      [] chunk = "b64:silence"  -> [err |-> None, bytes |-> "silence.webm"]
      [] chunk = "b64:noframes" -> [err |-> None, bytes |-> "noframes.webm"]
      [] OTHER                  -> [err |-> "binascii.Error", bytes |-> ""]

\* convert_webm_to_wav_array: [err, pcm]; a container without decodable
\* frames raises ValueError("Decoding audio frames failed.")
ConvertWebmToWavArray(audio_bytes) ==
    IF audio_bytes = "noframes.webm"
    THEN [err |-> "ValueError", pcm |-> ""]
    ELSE [err |-> None, pcm |-> audio_bytes]

\* model.transcribe(wav_array)["text"]: the external speech-to-text model
ModelText(pcm) ==
    IF pcm = "speech.webm" THEN <<" ", "h", "i", " ">> ELSE <<" ", "\t">>

EmptyPlaceholder == <<"[", "E", "m", "p", "t", "y", "]">>

TranscribeFaults == PersistFaults \cup {"transcribe"}

\* mutant of FinalText: no placeholder for an empty text
FinalTextNoPlaceholder(audio_bytes) ==
    StripWs(ModelText(ConvertWebmToWavArray(audio_bytes).pcm))

\* lines 307-311: the text of the chunk, "[Empty]" when the model hears nothing
FinalText(audio_bytes) ==
    IF StripWs(ModelText(ConvertWebmToWavArray(audio_bytes).pcm)) = <<>>
    THEN EmptyPlaceholder
    ELSE StripWs(ModelText(ConvertWebmToWavArray(audio_bytes).pcm))

\* mutant of TranscribeFailed: the bundle folder is made before the audio is
\* decoded
TranscribeFailedAfterMkdir(d, f, e) ==
    [d |-> Mkdir(d, FolderPath(DefaultOutputDir, NoneStr, NonePath, 0, "0a1b2c")),
     f |-> f, err |-> e, text |-> <<>>, saved |-> FALSE,
     saved_paths |-> [folder |-> <<>>]]

\* an exception leaves transcribe_audio_chunk: nothing was written
TranscribeFailed(d, f, e) ==
    [d |-> d, f |-> f, err |-> e, text |-> <<>>, saved |-> FALSE,
     saved_paths |-> [folder |-> <<>>]]

\* lines 313-325: the outcome when the bundle was (or failed to be) saved
TranscribeSaved(saved, final_text) ==
    [d |-> saved.d, f |-> saved.f, err |-> saved.err, text |-> final_text,
     saved |-> saved.err = None, saved_paths |-> saved.result]

\* returns [d, f, err, text, saved, saved_paths]
TranscribeAudioChunk(d, f, audio_chunk_b64, save_to_disk, output_dir, tab_title, tab_uuid, tab_id, tab_url, now, token, fault) ==
    IF B64Decode(audio_chunk_b64).err # None
    THEN TranscribeFailed(d, f, B64Decode(audio_chunk_b64).err)
    ELSE IF ConvertWebmToWavArray(B64Decode(audio_chunk_b64).bytes).err # None
    THEN TranscribeFailed(d, f,
             ConvertWebmToWavArray(B64Decode(audio_chunk_b64).bytes).err)
    ELSE IF fault = "transcribe" THEN TranscribeFailed(d, f, "RuntimeError")
    ELSE IF ~save_to_disk
    THEN [d |-> d, f |-> f, err |-> None,
          text |-> FinalText(B64Decode(audio_chunk_b64).bytes),
          saved |-> FALSE, saved_paths |-> [folder |-> <<>>]]
    ELSE TranscribeSaved(
             SaveRecordingBundle(d, f, B64Decode(audio_chunk_b64).bytes,
                                 FinalText(B64Decode(audio_chunk_b64).bytes),
                                 output_dir, tab_title, tab_uuid, tab_id,
                                 tab_url, now, token, fault),
             FinalText(B64Decode(audio_chunk_b64).bytes))

-----------------------------------------------------------------------------
(* Framing: send_message.  A frame on stdout is the message with the       *)
(* number of the input frame during whose processing it was written (0:    *)
(* start-up).  `o` is the pair [out, buf] of flushed and buffered frames.   *)

\* mutant of SendMessage: the frame is written and never flushed
SendMessageNoFlush(o, n, message) ==
    [out |-> o.out,
     buf |-> o.buf \o <<[for |-> n, payload |-> message]>>]

SendMessage(o, n, message) ==
    [out |-> o.out \o o.buf \o <<[for |-> n, payload |-> message]>>,
     buf |-> <<>>]

RECURSIVE SendAll(_, _, _)
SendAll(o, n, messages) ==
    IF messages = <<>> THEN o
    ELSE SendAll(SendMessage(o, n, Head(messages)), n, Tail(messages))

Status(text) == [type |-> "status", text |-> text]

Error(text) == [type |-> "error", text |-> text]

-----------------------------------------------------------------------------
(* Messages.  A decoded mapping is a record of the keys the host reads; an *)
(* absent key holds None (Absent where the code distinguishes a missing    *)
(* key from a value), and `extra` says that some other key is present.     *)

NoLimit == [type |-> "none", val |-> 0]

BlankMsg ==
    [command |-> None, audioChunk |-> Absent, saveToDisk |-> Absent,
     tabTitle |-> NoneStr, tabUUID |-> NonePath, tabId |-> None,
     tabURL |-> None, outputDir |-> NonePath, path |-> NonePath,
     requestId |-> None, limit |-> NoLimit, includeTranscripts |-> Absent,
     mimeType |-> None, extra |-> FALSE]

\* msg.get("outputDir", "recordings")
OutputDirOf(m) == IF m.outputDir = NonePath THEN DefaultOutputDir ELSE m.outputDir

\* msg.get("saveToDisk", True) and msg.get("includeTranscripts", True), as
\* the truth value the callee tests
FlagOf(v) == v # "false"

OtherDir == <<<<"elsewhere">>>>

TabU1 == <<<<"u1">>>>

TabEvil == <<UpSeg, <<"evil">>>>

SlashTitle == <<"a", "/", "b">>

TabCases ==
    {[tabTitle |-> NoneStr, tabUUID |-> NonePath, tabId |-> None, tabURL |-> None],
     [tabTitle |-> SlashTitle, tabUUID |-> TabU1, tabId |-> "7",
      tabURL |-> "https://a.example/"],
     [tabTitle |-> SlashTitle, tabUUID |-> TabEvil, tabId |-> None, tabURL |-> None],
     [tabTitle |-> NoneStr, tabUUID |-> IntValue, tabId |-> None, tabURL |-> None]}

WithTab(m, t) ==
    [m EXCEPT !.tabTitle = t.tabTitle, !.tabUUID = t.tabUUID,
              !.tabId = t.tabId, !.tabURL = t.tabURL]

TranscribeMsgs ==
    {[WithTab(BlankMsg, t) EXCEPT !.audioChunk = "b64:speech", !.saveToDisk = sv] :
        t \in TabCases, sv \in {Absent, "true", "false"}}
    \cup {[WithTab(BlankMsg, t) EXCEPT !.audioChunk = "b64:speech",
                                       !.outputDir = OtherDir] :
            t \in {c \in TabCases : c.tabUUID = TabU1}}
    \cup {[BlankMsg EXCEPT !.audioChunk = c] : c \in AudioChunks \ {"b64:speech"}}
    \cup {[BlankMsg EXCEPT !.command = "transcribe", !.audioChunk = "b64:speech",
                           !.saveToDisk = "false"]}

MissingPath == <<<<"missing">>>>

\* the paths a message may name: none, one that does not exist, and every
\* directory and file that exists
PathChoices(d, f) == {NonePath, MissingPath} \cup d \cup DOMAIN f

CommandMsgs(d, f) ==
    {[BlankMsg EXCEPT !.command = "open-recordings-folder", !.outputDir = o] :
        o \in {NonePath, OtherDir}}
    \cup {[BlankMsg EXCEPT !.command = "open-folder", !.path = q] :
            q \in PathChoices(d, f)}
    \cup {[BlankMsg EXCEPT !.command = "load-tab-history", !.tabUUID = u,
                           !.outputDir = o, !.requestId = "r1"] :
            u \in {NonePath, TabU1, IntValue}, o \in {NonePath, OtherDir}}
    \cup {[BlankMsg EXCEPT !.command = "load-tab-history", !.tabUUID = TabU1,
                           !.limit = [type |-> "int", val |-> 1],
                           !.includeTranscripts = "false"]}
    \cup {[BlankMsg EXCEPT !.command = "load-audio-file", !.path = q,
                           !.requestId = "r2"] :
            q \in PathChoices(d, f)}

NoMatchMsgs ==
    {BlankMsg, [BlankMsg EXCEPT !.extra = TRUE],
     [BlankMsg EXCEPT !.command = "transcribe"]}

\* every message the browser may send in a state: each command with and
\* without an audioChunk key beside it
Messages(d, f) ==
    TranscribeMsgs \cup NoMatchMsgs \cup CommandMsgs(d, f)
    \cup {[m EXCEPT !.audioChunk = "b64:speech"] : m \in CommandMsgs({}, <<>>)}

\* the mappings that the remains of a cut-off payload may happen to spell
TruncatedMsgs ==
    {BlankMsg,
     [BlankMsg EXCEPT !.audioChunk = "b64:speech", !.saveToDisk = "false"],
     [BlankMsg EXCEPT !.command = "open-folder", !.path = MissingPath]}

-----------------------------------------------------------------------------
(* read_message.  The browser's next move on stdin is a frame descriptor:  *)
(*   kind    "eof"          the stream is closed at a frame boundary       *)
(*           "shortprefix"  it is closed after 1..3 bytes of a prefix      *)
(*           "complete"     prefix and the announced payload arrive        *)
(*           "truncated"    the prefix arrives, then the stream is closed  *)
(*                          before the announced payload is complete       *)
(*   decode  what the payload bytes that did arrive decode to: "nonutf8",  *)
(*           "malformed" JSON, "nonmap" (valid JSON, not a mapping), "map" *)
(*   msg     the mapping, when decode = "map"                              *)

NoFrame == [kind |-> "none", decode |-> "none", msg |-> BlankMsg]

Frames(d, f) ==
    {[kind |-> k, decode |-> "none", msg |-> BlankMsg] : k \in {"eof", "shortprefix"}}
    \cup {[kind |-> k, decode |-> dc, msg |-> BlankMsg] :
            k \in {"complete", "truncated"},
            dc \in {"nonutf8", "malformed", "nonmap"}}
    \cup {[kind |-> "complete", decode |-> "map", msg |-> m] : m \in Messages(d, f)}
    \cup {[kind |-> "truncated", decode |-> "map", msg |-> m] : m \in TruncatedMsgs}

InvalidPayload == Error("Invalid message payload received by native host.")

\* mutant of ReadMessageResult: a payload that is no mapping is answered
\* like a malformed one
ReadMessageResultStrict(fr) ==
    CASE fr.kind = "eof"         -> [ret |-> "None", replies |-> <<>>]
      [] fr.kind = "shortprefix" -> [ret |-> "raise", replies |-> <<>>]
      [] fr.decode = "nonutf8"   -> [ret |-> "raise", replies |-> <<>>]
      [] fr.decode = "malformed" -> [ret |-> "empty", replies |-> <<InvalidPayload>>]
      [] fr.decode = "nonmap"    -> [ret |-> "empty", replies |-> <<InvalidPayload>>]
      [] OTHER                   -> [ret |-> "msg", replies |-> <<>>]

\* returns [ret, replies]: ret is "None" (stream closed), "raise" (an
\* exception leaves read_message), "empty" ({} returned) or "msg"
ReadMessageResult(fr) ==
    CASE fr.kind = "eof"         -> [ret |-> "None", replies |-> <<>>]
      [] fr.kind = "shortprefix" -> [ret |-> "raise", replies |-> <<>>]
      [] fr.decode = "nonutf8"   -> [ret |-> "raise", replies |-> <<>>]
      [] fr.decode = "malformed" -> [ret |-> "empty", replies |-> <<InvalidPayload>>]
      [] fr.decode = "nonmap"    -> [ret |-> "empty", replies |-> <<>>]
      [] OTHER                   -> [ret |-> "msg", replies |-> <<>>]

\* lines 136-141: where the loop goes with what read_message returned
AfterRead(fr) ==
    LET r == ReadMessageResult(fr)
    IN  CASE r.ret = "None"  -> "done"
          [] r.ret = "raise" -> "crashed"
          [] r.ret = "empty" -> "read"
          [] OTHER           -> IF fr.msg = BlankMsg THEN "read" ELSE "dispatch"

\* mutant of Route: the audioChunk test comes first
RouteAudioFirst(m) ==
    IF m.audioChunk # Absent THEN "audioChunk"
    ELSE IF m.command \in {"open-recordings-folder", "open-folder",
                           "load-tab-history", "load-audio-file"}
         THEN m.command
         ELSE "unhandled"

\* lines 143-279: the branch of the loop body a message takes
Route(m) ==
    IF m.command = "open-recordings-folder" THEN "open-recordings-folder"
    ELSE IF m.command = "open-folder" THEN "open-folder"
    ELSE IF m.command = "load-tab-history" THEN "load-tab-history"
    ELSE IF m.command = "load-audio-file" THEN "load-audio-file"
    ELSE IF m.audioChunk # Absent THEN "audioChunk"
    ELSE "unhandled"

-----------------------------------------------------------------------------
(* The host process.                                                       *)

StartupFrames ==
    <<[for |-> 0, payload |-> Status("Whisper host started")],
      [for |-> 0, payload |-> Status("ModelReady")]>>

HostInit ==
    /\ pc = "read"
    /\ nread = 0
    /\ closed = FALSE
    /\ msg = BlankMsg
    /\ last = [frame |-> NoFrame, route |-> "none", failed |-> FALSE]
    /\ stdout = StartupFrames
    /\ outbuf = <<>>
    /\ dirs = Ancestors(Cwd)
    /\ files = <<>>
    /\ clock = 0
    /\ opened = <<>>
    /\ nfaults = 0
    /\ persisted = {}
    /\ platform \in Platforms

\* the history harness at rest
HistoryIdle ==
    /\ hsPc = "idle"
    /\ hsFile = [exists |-> FALSE, lines |-> <<>>]
    /\ hsLimit = NoLimit
    /\ hsResult = [err |-> None, entries |-> <<>>]

\* the writer harness at rest
PersistIdle ==
    /\ psPc = "idle"
    /\ psArgs = [audio_bytes |-> "", transcript_text |-> <<>>,
                 tab_title |-> NoneStr, tab_uuid |-> NonePath]
    /\ psResult = [err |-> None, result |-> [folder |-> <<>>]]

\* the sender and recorder harnesses at rest
SendIdle ==
    /\ smWire = <<>>
    /\ smSent = <<>>
    /\ rcLog = <<>>

\* the sanitiser harness at rest
PrefixIdle ==
    /\ pfPc = "idle"
    /\ pfTitle = <<>>
    /\ pfResult = <<>>

Init ==
    /\ HostInit
    /\ PrefixIdle
    /\ HistoryIdle
    /\ PersistIdle
    /\ SendIdle

\* one call of read_message and the loop's test of what it returned
ReadMessage ==
    /\ pc = "read"
    /\ \E fr \in Frames(dirs, files) :
        /\ fr.kind = "eof" \/ (nread < MaxFrames /\ ~closed)
        /\ last' = [frame |-> fr, route |-> "none", failed |-> FALSE]
        /\ nread' = nread + 1
        /\ closed' = (fr.kind # "complete")
        /\ pc' = AfterRead(fr)
        /\ msg' = IF AfterRead(fr) = "dispatch" THEN fr.msg ELSE BlankMsg
        /\ LET r == ReadMessageResult(fr)
               o == SendAll([out |-> stdout, buf |-> outbuf], nread + 1, r.replies)
           IN  /\ stdout' = o.out
               /\ outbuf' = o.buf
    /\ UNCHANGED <<dirs, files, clock, opened, nfaults, persisted, platform, harnessVars>>

\* the refusals the operating system may still make, out of `kinds`
MayRefuse(kinds) == IF nfaults < MaxFaults THEN {"none"} \cup kinds ELSE {"none"}

\* what every handler does besides its own work: write its replies, record
\* the branch taken, and `continue`
Finish(route, failed, replies, fault) ==
    LET o == SendAll([out |-> stdout, buf |-> outbuf], nread, replies)
    IN  /\ stdout' = o.out
        /\ outbuf' = o.buf
        /\ last' = [last EXCEPT !.route = route, !.failed = failed]
        /\ pc' = "read"
        /\ msg' = BlankMsg
        /\ nfaults' = IF fault = "none" THEN nfaults ELSE nfaults + 1
        /\ UNCHANGED <<nread, closed, platform, harnessVars>>

\* lines 149-156: the reply of the open-recordings-folder branch
OpenRecordingsReply(r) ==
    IF r.err = None
    THEN Status(<<"Recordings folder opened: ", r.folder>>)
    ELSE Error(<<"Failed to open recordings folder: ", r.err>>)

HandleOpenRecordingsFolder ==
    /\ pc = "dispatch"
    /\ Route(msg) = "open-recordings-folder"
    /\ \E fault \in MayRefuse({"mkdir_root", "launch"}) :
        \E r \in {OpenRecordingsFolder(dirs, files, OutputDirOf(msg),
                                       fault = "mkdir_root", fault = "launch")} :
            /\ dirs' = r.d
            /\ opened' = IF r.launched THEN Append(opened, r.folder) ELSE opened
            /\ Finish("open-recordings-folder", r.err # None,
                      <<OpenRecordingsReply(r)>>, fault)
    /\ UNCHANGED <<files, clock, persisted>>

\* lines 163-168: the reply of the open-folder branch
OpenFolderReply(r) ==
    IF r.err = None
    THEN Status(<<"Opened saved folder: ", r.folder>>)
    ELSE Error(<<"Failed to open saved folder: ", r.err>>)

HandleOpenFolder ==
    /\ pc = "dispatch"
    /\ Route(msg) = "open-folder"
    /\ \E fault \in MayRefuse({"launch"}) :
        \E r \in {OpenSpecificFolder(dirs, files, msg.path, fault = "launch")} :
            /\ opened' = IF r.launched THEN Append(opened, r.folder) ELSE opened
            /\ Finish("open-folder", r.err # None, <<OpenFolderReply(r)>>, fault)
    /\ UNCHANGED <<dirs, files, clock, persisted>>

\* mutant of TabHistoryReply: a failure is answered with the generic error
TabHistoryReplyGeneric(m, r) ==
    IF r.err = None
    THEN [type |-> "tab-history-result", requestId |-> m.requestId,
          tabUUID |-> m.tabUUID, entries |-> r.entries]
    ELSE Error(<<"Unable to load tab history: ", r.err>>)

\* lines 184-201: the reply of the load-tab-history branch
TabHistoryReply(m, r) ==
    IF r.err = None
    THEN [type |-> "tab-history-result", requestId |-> m.requestId,
          tabUUID |-> m.tabUUID, entries |-> r.entries]
    ELSE [type |-> "tab-history-error", requestId |-> m.requestId,
          tabUUID |-> m.tabUUID,
          text |-> <<"Unable to load tab history: ", r.err>>]

HandleLoadTabHistory ==
    /\ pc = "dispatch"
    /\ Route(msg) = "load-tab-history"
    /\ \E r \in {LoadHistoryEntries(dirs, files, msg.tabUUID, OutputDirOf(msg),
                                    msg.limit, FlagOf(msg.includeTranscripts))} :
           Finish("load-tab-history", r.err # None, <<TabHistoryReply(msg, r)>>,
                  "none")
    /\ UNCHANGED <<dirs, files, opened, clock, persisted>>

\* lines 208-212: read the file and base64-encode it; [err, base64]
LoadAudioFile(d, f, audio_path, refused) ==
    IF ~Truthy(audio_path) THEN [err |-> "ValueError", base64 |-> <<>>]
    ELSE IF ~Exists(d, f, audio_path)
         THEN [err |-> "FileNotFoundError", base64 |-> <<>>]
    ELSE IF ~IsFile(f, audio_path)
         THEN [err |-> "IsADirectoryError", base64 |-> <<>>]
    ELSE IF refused THEN [err |-> "PermissionError", base64 |-> <<>>]
    ELSE [err |-> None, base64 |-> <<"base64", f[RealPath(audio_path)]>>]

\* mutant of AudioFileReply: a failure is answered without the request's id
AudioFileReplyNoEcho(m, r) ==
    IF r.err = None
    THEN [type |-> "audio-file", requestId |-> m.requestId, path |-> m.path,
          mimeType |-> IF m.mimeType = None THEN "audio/webm" ELSE m.mimeType,
          base64 |-> r.base64]
    ELSE [type |-> "audio-file-error", requestId |-> None,
          path |-> m.path, text |-> <<"Unable to load audio file: ", r.err>>]

\* lines 213-235: the reply of the load-audio-file branch
AudioFileReply(m, r) ==
    IF r.err = None
    THEN [type |-> "audio-file", requestId |-> m.requestId, path |-> m.path,
          mimeType |-> IF m.mimeType = None THEN "audio/webm" ELSE m.mimeType,
          base64 |-> r.base64]
    ELSE [type |-> "audio-file-error", requestId |-> m.requestId,
          path |-> m.path, text |-> <<"Unable to load audio file: ", r.err>>]

HandleLoadAudioFile ==
    /\ pc = "dispatch"
    /\ Route(msg) = "load-audio-file"
    /\ \E fault \in MayRefuse({"read"}) :
        \E r \in {LoadAudioFile(dirs, files, msg.path, fault = "read")} :
            Finish("load-audio-file", r.err # None, <<AudioFileReply(msg, r)>>,
                   fault)
    /\ UNCHANGED <<dirs, files, opened, clock, persisted>>

\* mutant of SaveToDiskOf: an absent saveToDisk counts as false
SaveToDiskDefaultFalse(m) == m.saveToDisk = "true"

\* line 253: save_to_disk=msg.get("saveToDisk", True)
SaveToDiskOf(m) == FlagOf(m.saveToDisk)

\* lines 250-258: no output_dir is passed, so transcribe_audio_chunk uses
\* its default
HandlerOutputDir(m) == DefaultOutputDir

\* lines 264-276: the replies of the audioChunk branch
TranscriptionReplies(r) ==
    IF r.err # None THEN <<Error(<<"[Error] ", r.err>>)>>
    ELSE IF r.saved
         THEN <<Status(<<"Saved audio & transcript to ", r.saved_paths.folder>>),
                [type |-> "result", text |-> r.text,
                 savedPaths |-> r.saved_paths]>>
         ELSE <<[type |-> "result", text |-> r.text]>>

HandleAudioChunk ==
    /\ pc = "dispatch"
    /\ Route(msg) = "audioChunk"
    /\ \E now \in clock..MaxClock, token \in Tokens,
          fault \in MayRefuse(TranscribeFaults \ {"none"}) :
        \E r \in {TranscribeAudioChunk(dirs, files, msg.audioChunk,
                                       SaveToDiskOf(msg), HandlerOutputDir(msg),
                                       msg.tabTitle, msg.tabUUID, msg.tabId,
                                       msg.tabURL, now, token, fault)} :
            /\ dirs' = r.d
            /\ files' = r.f
            /\ clock' = now
            /\ persisted' =
                 IF r.saved /\ fault = "none"
                 THEN persisted \cup {[outputDir |-> OutputDirOf(msg),
                                       tabUUID |-> msg.tabUUID,
                                       folder |-> r.saved_paths.folder]}
                 ELSE persisted
            /\ Finish("audioChunk", r.err # None, TranscriptionReplies(r), fault)
    /\ UNCHANGED opened

\* line 279: nothing matched; the message is logged and dropped
Unhandled ==
    /\ pc = "dispatch"
    /\ Route(msg) = "unhandled"
    /\ Finish("unhandled", FALSE, <<>>, "none")
    /\ UNCHANGED <<dirs, files, opened, clock, persisted>>

Next ==
    \/ ReadMessage
    \/ HandleOpenRecordingsFolder
    \/ HandleOpenFolder
    \/ HandleLoadTabHistory
    \/ HandleLoadAudioFile
    \/ HandleAudioChunk
    \/ Unhandled

Spec == Init /\ [][Next]_vars

\* The loop is sequential and never waits for anything but stdin, and a
\* browser that sends finitely many frames and then closes the stream makes
\* every blocking read return: while the host has neither shut down nor
\* crashed it takes its next step.  Every step of Next reads a frame (nread
\* grows) or finishes a handler (pc goes back to "read"), so the condition is
\* weak fairness of Next, written on pc and nread.
Advance ==
    /\ pc \in {"read", "dispatch"}
    /\ pc' \in {"read", "dispatch", "done", "crashed"}
    /\ nread' \in 0..(MaxFrames + 1)

SpecLive == Spec /\ WF_<<pc, nread>>(Advance)

-----------------------------------------------------------------------------
(* The sanitiser on its own: one call of _build_folder_prefix on a title   *)
(* drawn from Titles.                                                      *)

InitPrefix ==
    /\ HostInit
    /\ pfPc = "call"
    /\ pfTitle \in Titles
    /\ pfResult = <<>>
    /\ HistoryIdle
    /\ PersistIdle
    /\ SendIdle

CallBuildFolderPrefix ==
    /\ pfPc = "call"
    /\ pfResult' = BuildFolderPrefix(pfTitle)
    /\ pfPc' = "done"
    /\ UNCHANGED <<pfTitle, hostVars, hsVars, psVars, smVars, rcLog>>

NextPrefix == CallBuildFolderPrefix

SpecPrefix == InitPrefix /\ [][NextPrefix]_vars

-----------------------------------------------------------------------------
(* The history store on its own: one call of load_history_entries for tab  *)
(* "u1" under the default output directory, on a history file drawn from   *)
(* HistoryFiles and a limit drawn from Limits.                             *)

CreatedAtForms ==
    {IsoZ(n) : n \in 0..MaxStamp}
    \cup {[form |-> fm, t |-> 0] : fm \in {"missing", "empty", "garbage", "number"}}

RecNames == <<"rec1", "rec2", "rec3", "rec4", "rec5", "rec6">>

\* the entry on line i of a history file, its createdAt being c
LineEntry(i, c) ==
    [HistoryEntry(NoneStr, TabU1, None, None, 0,
                  DefaultOutputDir \o TabU1 \o <<<<RecNames[i]>>>>)
        EXCEPT !.createdAt = c]

HistoryFiles ==
    {[exists |-> FALSE, lines |-> <<>>]}
    \cup {[exists |-> TRUE, lines |-> [i \in 1..Len(cs) |-> LineEntry(i, cs[i])]] :
            cs \in SeqsUpTo(CreatedAtForms, MaxLines)}

Limits ==
    {NoLimit}
    \cup {[type |-> "int", val |-> v] : v \in (-1)..(MaxLines + 1)}
    \cup {[type |-> "bool", val |-> 1], [type |-> "bool", val |-> 0],
          [type |-> "str", val |-> 2], [type |-> "float", val |-> 2]}

\* the file system holding just that history file
HistoryFs(file) ==
    IF file.exists
    THEN (Cwd \o DefaultOutputDir \o TabU1 \o <<<<"history.jsonl">>>>)
            :> [kind |-> "jsonl", lines |-> file.lines]
    ELSE <<>>

InitHistory ==
    /\ HostInit
    /\ PrefixIdle
    /\ PersistIdle
    /\ SendIdle
    /\ hsPc = "call"
    /\ hsFile \in HistoryFiles
    /\ hsLimit \in Limits
    /\ hsResult = [err |-> None, entries |-> <<>>]

CallLoadHistoryEntries ==
    /\ hsPc = "call"
    /\ hsResult' = LoadHistoryEntries(dirs, HistoryFs(hsFile), TabU1,
                                      DefaultOutputDir, hsLimit, TRUE)
    /\ hsPc' = "done"
    /\ UNCHANGED <<hsFile, hsLimit, hostVars, pfVars, psVars, smVars, rcLog>>

NextHistory == CallLoadHistoryEntries

SpecHistory == InitHistory /\ [][NextHistory]_vars

-----------------------------------------------------------------------------
(* The writer on its own: one call of save_recording_bundle, under the     *)
(* default output directory, on audio bytes, a transcript and a tab drawn  *)
(* from small sets.                                                        *)

TextAlphabet == {"a", "\n", "\r"}

Texts == SeqsUpTo(TextAlphabet, MaxText) \cup {EmptyPlaceholder}

AudioBytes == {"speech.webm", "silence.webm"}

InitPersist ==
    /\ HostInit
    /\ PrefixIdle
    /\ HistoryIdle
    /\ SendIdle
    /\ psPc = "call"
    /\ psArgs \in {[audio_bytes |-> b, transcript_text |-> t,
                     tab_title |-> c.tabTitle, tab_uuid |-> c.tabUUID] :
                        b \in AudioBytes, t \in Texts, c \in TabCases}
    /\ psResult = [err |-> None, result |-> [folder |-> <<>>]]

CallSaveRecordingBundle ==
    /\ psPc = "call"
    /\ \E token \in Tokens, fault \in PersistFaults :
        \E r \in {SaveRecordingBundle(dirs, files, psArgs.audio_bytes,
                                      psArgs.transcript_text, DefaultOutputDir,
                                      psArgs.tab_title, psArgs.tab_uuid, None,
                                      None, clock, token, fault)} :
            /\ dirs' = r.d
            /\ files' = r.f
            /\ psResult' = [err |-> r.err, result |-> r.result]
    /\ psPc' = "done"
    /\ UNCHANGED <<pc, nread, closed, msg, last, stdout, outbuf, clock, opened,
                   nfaults, persisted, platform, psArgs, pfVars, hsVars, smVars, rcLog>>

NextPersist == CallSaveRecordingBundle

SpecPersist == InitPersist /\ [][NextPersist]_vars

-----------------------------------------------------------------------------
(* send_message down to the bytes (whisper_host.py:87-99).  A Python value *)
(* is a record [k, s, n, items]: k is its type, s the characters of a str  *)
(* (or the name of a float), n the number of an int or bool, items the     *)
(* <<key, value>> pairs of a dict in insertion order.                      *)

Py(k, s, n, items) == [k |-> k, s |-> s, n |-> n, items |-> items]

PyStr(s) == Py("str", s, 0, <<>>)

PyNone == Py("none", <<>>, 0, <<>>)

PyBool(b) == Py("bool", <<>>, IF b THEN 1 ELSE 0, <<>>)

PyInt(n) == Py("int", <<>>, n, <<>>)

\* float("nan"), float("inf"), float("-inf"): what json.loads makes of the
\* tokens NaN, Infinity and -Infinity in a payload or a history line
PyFloat(name) == Py("float", <<name>>, 0, <<>>)

\* a bytes object: json.dumps raises TypeError
PyBytes == Py("bytes", <<>>, 0, <<>>)

\* a dict that contains itself: json.dumps raises ValueError
PyCycle == Py("cycle", <<>>, 0, <<>>)

PyDict(items) == Py("dict", <<>>, 0, items)

\* the printable ASCII characters, code 32 first (the grave accent, which a
\* TLA+ string cannot hold, by its code point)
Ascii ==
    <<" ", "!", "\"", "#", "$", "%", "&", "'", "(", ")", "*", "+", ",", "-",
      ".", "/", "0", "1", "2", "3", "4", "5", "6", "7", "8", "9", ":", ";",
      "<", "=", ">", "?", "@", "A", "B", "C", "D", "E", "F", "G", "H", "I",
      "J", "K", "L", "M", "N", "O", "P", "Q", "R", "S", "T", "U", "V", "W",
      "X", "Y", "Z", "[", "\\", "]", "^", "_", "U+0060", "a", "b", "c", "d", "e",
      "f", "g", "h", "i", "j", "k", "l", "m", "n", "o", "p", "q", "r", "s",
      "t", "u", "v", "w", "x", "y", "z", "{", "|", "}", "~">>

DigitChars == <<"0", "1", "2", "3", "4", "5", "6", "7", "8", "9">>

\* the one character of the model outside ASCII: U+00E9
EAcute == "é"

\* json.dumps(..., ensure_ascii=True) on one character of a str
EscapeChar(c) ==
    CASE c = "\"" -> <<"\\", "\"">>
      [] c = "\\" -> <<"\\", "\\">>
      [] c = "\n" -> <<"\\", "n">>
      [] c = EAcute -> <<"\\", "u", "0", "0", "e", "9">>
      [] OTHER -> <<c>>

RECURSIVE EscapeAll(_)
EscapeAll(s) ==
    IF s = <<>> THEN <<>> ELSE EscapeChar(Head(s)) \o EscapeAll(Tail(s))

JsonString(s) == <<"\"">> \o EscapeAll(s) \o <<"\"">>

RECURSIVE Decimal(_)
Decimal(n) ==
    IF n < 0 THEN <<"-">> \o Decimal(0 - n)
    ELSE IF n < 10 THEN <<DigitChars[n + 1]>>
    ELSE Decimal(n \div 10) \o <<DigitChars[(n % 10) + 1]>>

\* float.__repr__ as json.dumps uses it with allow_nan=True
FloatText(name) ==
    CASE name = "nan"  -> <<"N", "a", "N">>
      [] name = "inf"  -> <<"I", "n", "f", "i", "n", "i", "t", "y">>
      [] name = "-inf" -> <<"-", "I", "n", "f", "i", "n", "i", "t", "y">>

\* json.dumps raises TypeError (bytes) or ValueError (circular reference)
RECURSIVE SerializeError(_)
SerializeError(v) ==
    CASE v.k = "bytes" -> "TypeError"
      [] v.k = "cycle" -> "ValueError"
      [] v.k = "dict" ->
            IF \E i \in 1..Len(v.items) : SerializeError(v.items[i][2]) # None
            THEN SerializeError(v.items[CHOOSE i \in 1..Len(v.items) :
                                          SerializeError(v.items[i][2]) # None][2])
            ELSE None
      [] OTHER -> None

\* the text json.dumps returns for a value it can serialise, with the default
\* separators ", " and ": "
RECURSIVE JsonText(_)
RECURSIVE JsonItems(_)
JsonItems(items) ==
    IF items = <<>> THEN <<>>
    ELSE JsonString(Head(items)[1]) \o <<":", " ">> \o JsonText(Head(items)[2])
         \o (IF Len(items) > 1 THEN <<",", " ">> ELSE <<>>)
         \o JsonItems(Tail(items))

JsonText(v) ==
    CASE v.k = "str"   -> JsonString(v.s)
      [] v.k = "none"  -> <<"n", "u", "l", "l">>
      [] v.k = "bool"  -> IF v.n = 1 THEN <<"t", "r", "u", "e">>
                          ELSE <<"f", "a", "l", "s", "e">>
      [] v.k = "int"   -> Decimal(v.n)
      [] v.k = "float" -> FloatText(v.s[1])
      [] v.k = "dict"  -> <<"{">> \o JsonItems(v.items) \o <<"}">>

\* str.encode("utf-8"): one byte for an ASCII character, two for U+00E9
RECURSIVE EncodeUtf8(_)
EncodeUtf8(text) ==
    IF text = <<>> THEN <<>>
    ELSE (CASE Head(text) = "\n" -> <<10>>
            [] Head(text) = EAcute -> <<195, 169>>
            [] OTHER -> <<31 + (CHOOSE i \in 1..Len(Ascii) : Ascii[i] = Head(text))>>)
         \o EncodeUtf8(Tail(text))

\* struct.pack("<I", n) for n below 2^32
PackLE(n) ==
    <<n % 256, (n \div 256) % 256, (n \div 65536) % 256, (n \div 16777216) % 256>>

\* lines 87-99 on the bytes of stdout: returns [wire, sent]
SendMessageBytes(wire, message) ==
    IF SerializeError(message) # None
    THEN [wire |-> wire, sent |-> FALSE]
    ELSE [wire |-> wire \o PackLE(Len(EncodeUtf8(JsonText(message))))
                        \o EncodeUtf8(JsonText(message)),
          sent |-> TRUE]

(* The sender harness: send_message called on messages whose values are   *)
(* what the host puts into its replies (strings, None, numbers and         *)
(* mappings taken from the request or from history.jsonl) and on two       *)
(* values json.dumps refuses.                                              *)

MaxSends == 2

SendStrings ==
    {<<>>, <<"a">>, <<"\"">>, <<"\\">>, <<"\n">>, <<EAcute>>, <<"a", EAcute>>,
     <<"{", "}">>}

SendValues ==
    {PyStr(s) : s \in SendStrings}
    \cup {PyNone, PyBool(TRUE), PyBool(FALSE), PyInt(0), PyInt(12), PyInt(-3),
          PyBytes, PyCycle}
    \cup {PyFloat(f) : f \in {"nan", "inf", "-inf"}}
    \cup {PyDict(<<>>), PyDict(<< <<<<"i", "d">>, PyInt(7)>> >>)}

TypeKey == <<"t", "y", "p", "e">>

RequestIdKey == <<"r", "e", "q", "u", "e", "s", "t", "I", "d">>

SendInputs ==
    {PyDict(<< <<TypeKey, PyStr(<<"x">>)>>, <<RequestIdKey, v>> >>) : v \in SendValues}
    \cup {PyDict(<< <<TypeKey, PyStr(<<"x">>)>> >>)}

InitSend ==
    /\ HostInit
    /\ PrefixIdle
    /\ HistoryIdle
    /\ PersistIdle
    /\ smWire = <<>>
    /\ smSent = <<>>
    /\ rcLog = <<>>

CallSendMessage ==
    /\ Len(smSent) < MaxSends
    /\ \E message \in SendInputs :
        /\ smWire' = SendMessageBytes(smWire, message).wire
        /\ smSent' = Append(smSent, message)
    /\ UNCHANGED <<hostVars, pfVars, hsVars, psVars, rcLog>>

NextSend == CallSendMessage

SpecSend == InitSend /\ [][NextSend]_vars

(* The recorder harness: save_recording_bundle called several times in a   *)
(* row, for no tab, for one tab under two titles, for a second tab, and    *)
(* for a tab identity that is a path to the first tab's folder.            *)

MaxRecordings == 2

TabU2 == <<<<"u2">>>>

\* the string "../recordings/u1"
TabAlias == <<UpSeg, <<"recordings">>, <<"u1">>>>

RecordedTabs ==
    {[tabTitle |-> NoneStr, tabUUID |-> NonePath, tabId |-> None, tabURL |-> None],
     [tabTitle |-> <<"a">>, tabUUID |-> TabU1, tabId |-> "7",
      tabURL |-> "https://a.example/"],
     [tabTitle |-> <<"b">>, tabUUID |-> TabU1, tabId |-> "8",
      tabURL |-> "https://b.example/"],
     [tabTitle |-> <<"b">>, tabUUID |-> TabU2, tabId |-> "9",
      tabURL |-> "https://b.example/"],
     [tabTitle |-> <<"c">>, tabUUID |-> TabAlias, tabId |-> "5",
      tabURL |-> "https://c.example/"]}

RecordFaults == {"none", "write_text", "write_meta", "append_history"}

InitRecord ==
    /\ HostInit
    /\ PrefixIdle
    /\ HistoryIdle
    /\ PersistIdle
    /\ SendIdle

CallRecord ==
    /\ Len(rcLog) < MaxRecordings
    /\ \E c \in RecordedTabs, now \in clock..MaxClock, token \in Tokens,
          fault \in RecordFaults :
        \E r \in {SaveRecordingBundle(dirs, files, "speech.webm", <<"h", "i">>,
                                      DefaultOutputDir, c.tabTitle, c.tabUUID,
                                      c.tabId, c.tabURL, now, token, fault)} :
            /\ dirs' = r.d
            /\ files' = r.f
            /\ clock' = now
            /\ rcLog' = Append(rcLog, [tab |-> c, err |-> r.err, fault |-> fault,
                                       folder |-> r.result.folder])
    /\ UNCHANGED <<pc, nread, closed, msg, last, stdout, outbuf, opened,
                   nfaults, persisted, platform, pfVars, hsVars, psVars, smVars>>

NextRecord == CallRecord

SpecRecord == InitRecord /\ [][NextRecord]_vars

-----------------------------------------------------------------------------
(* Properties.                                                             *)

\* the frames written while input frame n was being processed
RepliesFor(n) == SelectSeq(stdout, LAMBDA fr : fr.for = n)

ReplyTypes(n) == {RepliesFor(n)[i].payload.type : i \in 1..Len(RepliesFor(n))}

NamedCommands ==
    {"open-recordings-folder", "open-folder", "load-tab-history", "load-audio-file"}

\* the loop body has run for the message of the last frame
Dispatched == last.route # "none"

\* the reply types each branch of the loop body can write
OwnReplyTypes(route) ==
    CASE route = "open-recordings-folder" -> {"status", "error"}
      [] route = "open-folder"      -> {"status", "error"}
      [] route = "load-tab-history" -> {"tab-history-result", "tab-history-error"}
      [] route = "load-audio-file"  -> {"audio-file", "audio-file-error"}
      [] route = "audioChunk"       -> {"status", "result", "error"}
      [] OTHER                      -> {}

\* C1: a non-empty mapping takes exactly one branch of the loop body, the
\* first that matches in the order open-recordings-folder, open-folder,
\* load-tab-history, load-audio-file, audioChunk key; with one of the four
\* commands an audioChunk beside it never runs transcription (no result
\* reply, no file written); with any other or no command an audioChunk
\* always does.  A mapping that matches nothing takes the drop branch.
C1_RoutedByPriority ==
    Dispatched =>
        LET m == last.frame.msg
        IN  /\ ReplyTypes(nread) \subseteq OwnReplyTypes(last.route)
            /\ m.command \in NamedCommands =>
                 /\ last.route = m.command
                 /\ "result" \notin ReplyTypes(nread)
                 /\ Len(RepliesFor(nread)) = 1
            /\ m.command \notin NamedCommands /\ m.audioChunk # Absent
                 => last.route = "audioChunk"
            /\ m.command \notin NamedCommands /\ m.audioChunk = Absent
                 => last.route = "unhandled" /\ RepliesFor(nread) = <<>>

\* C1 witness: open-folder with an audioChunk beside it has been handled
C1_Witness ==
    /\ Dispatched
    /\ last.frame.msg.command = "open-folder"
    /\ last.frame.msg.audioChunk # Absent
    /\ last.route = "open-folder"

ErrorKinds == {"error", "tab-history-error", "audio-file-error"}

ErrorKindOf(route) ==
    CASE route = "load-tab-history" -> "tab-history-error"
      [] route = "load-audio-file"  -> "audio-file-error"
      [] OTHER                      -> "error"

ErrorReplies(n) ==
    SelectSeq(RepliesFor(n), LAMBDA fr : fr.payload.type \in ErrorKinds)

C3_UndecodableAnswered ==
    last.frame.kind = "complete" /\ last.frame.decode \in {"malformed", "nonutf8"}
        => /\ pc = "read"
           /\ Len(RepliesFor(nread)) = 1
           /\ RepliesFor(nread)[1].payload.type = "error"
           /\ last.route = "none"

\* C4 (as claimed): a stream closed between the length prefix and the end of
\* the payload ends the host with a fault: no reply, no handler, no return
\* to the loop
C4_TruncatedIsFault ==
    last.frame.kind = "truncated"
        => /\ pc = "crashed"
           /\ RepliesFor(nread) = <<>>
           /\ last.route = "none"

\* C5: whenever the host is about to read, every frame written so far has
\* been flushed, and stdout holds the replies grouped by input frame, in the
\* order the frames were received
C5_RepliesInOrder ==
    /\ pc = "read" => outbuf = <<>>
    /\ \A i \in 1..Len(stdout) :
        /\ stdout[i].for <= nread
        /\ \A j \in 1..Len(stdout) : i < j => stdout[i].for <= stdout[j].for
    /\ \A i \in 1..Len(outbuf) : outbuf[i].for = nread

\* C5 witness: a command answered with two frames, then one answered too
C5_Witness ==
    /\ pc = "read"
    /\ Len(RepliesFor(1)) = 2
    /\ Len(RepliesFor(2)) >= 1

\* C6 (as claimed): whatever tab title and tab identity the messages carry,
\* every file the host has written (audio.webm, transcript.txt, tab.json,
\* history.jsonl) and every bundle folder lies inside the output root
C6_WritesInsideRoot ==
    /\ \A q \in DOMAIN files : Inside(q, DefaultOutputDir)
    /\ \A rec \in persisted : Inside(rec.folder, DefaultOutputDir)

\* C7 (as claimed): a recording persisted for a message with outputDir D and
\* tab identity U is among the entries a later load-tab-history with the same
\* D and U returns
C7_HistoryFollowsOutputDir ==
    (last.route = "load-tab-history" /\ ~last.failed /\ last.frame.msg.limit = NoLimit)
        => LET m == last.frame.msg
               entries == RepliesFor(nread)[1].payload.entries
           IN  \A rec \in persisted :
                   rec.outputDir = OutputDirOf(m) /\ rec.tabUUID = m.tabUUID
                       => \E i \in 1..Len(entries) : entries[i].entry.folder = rec.folder

\* C8: a transcription that succeeds writes, with saveToDisk true or absent,
\* exactly a status naming the saved folder and then a result with the final
\* text and savedPaths; with saveToDisk false exactly one result without
\* savedPaths, and nothing on disk changes
C8_TranscriptionReplies ==
    [][(pc = "dispatch" /\ last'.route = "audioChunk" /\ ~last'.failed) =>
        LET new == SubSeq(stdout', Len(stdout) + 1, Len(stdout'))
        IN  /\ msg.saveToDisk \in {Absent, "true"} =>
                /\ Len(new) = 2
                /\ new[1].payload.type = "status"
                /\ new[2].payload.type = "result"
                /\ "savedPaths" \in DOMAIN new[2].payload
                /\ new[1].payload.text[2] = new[2].payload.savedPaths.folder
                /\ RealPath(new[2].payload.savedPaths.folder) \in dirs'
                /\ files'[RealPath(new[2].payload.savedPaths.text)].data
                     = new[2].payload.text
            /\ msg.saveToDisk = "false" =>
                /\ Len(new) = 1
                /\ new[1].payload.type = "result"
                /\ "savedPaths" \notin DOMAIN new[1].payload
                /\ new[1].payload.text # <<>>
                /\ dirs' = dirs
                /\ files' = files
      ]_vars

\* C8 witness: a transcription with saveToDisk absent has succeeded and was
\* answered with two frames
C8_Witness ==
    /\ last.route = "audioChunk"
    /\ ~last.failed
    /\ last.frame.msg.saveToDisk = Absent
    /\ Len(RepliesFor(nread)) = 2
    /\ DOMAIN files # {}

Underscored(t) == [i \in DOMAIN t |-> IF t[i] \in ForbiddenChars THEN "_" ELSE t[i]]

\* a title of plain letters with forbidden characters strictly inside it,
\* short enough not to be truncated
PlainWithForbidden(t) ==
    /\ t # NoneStr
    /\ Len(t) >= 3
    /\ Len(t) <= MAX_PREFIX_CHARS
    /\ \A i \in DOMAIN t : t[i] \in (WordChars \ {"_"}) \cup ForbiddenChars
    /\ t[1] \notin ForbiddenChars
    /\ t[Len(t)] \notin ForbiddenChars
    /\ \E i \in DOMAIN t : t[i] \in ForbiddenChars

\* C9 (as claimed): sanitisation puts an underscore where a forbidden
\* character stood: "My Tab / Name" gives "My Tab _ Name", "Another:Title"
\* gives "Another_Title"
C9_ForbiddenBecomeUnderscore ==
    pfPc = "done" =>
        /\ pfTitle = MyTabName => pfResult = Underscored(MyTabName)
        /\ pfTitle = AnotherTitle => pfResult = Underscored(AnotherTitle)
        /\ PlainWithForbidden(pfTitle) => pfResult = Underscored(pfTitle)

\* C10 (as claimed): the prefix neither begins nor ends with '.', '-' or '_'
C10_NoEdgePunctuation ==
    pfPc = "done" =>
        /\ pfResult # <<>>
        /\ pfResult[1] \notin {".", "-", "_"}
        /\ pfResult[Len(pfResult)] \notin {".", "-", "_"}

\* a title that sanitisation leaves nothing of: no word character and no
\* hyphen in it
ReducedToNothing(t) ==
    t = NoneStr \/ \A i \in DOMAIN t : t[i] \notin WordChars \cup {"-"}

\* C11: the prefix is non-empty, at most 60 characters long, made of word
\* characters, spaces, hyphens and underscores only, and is "recording" for
\* a title that is absent, empty, all whitespace or reduced to nothing
C11_PrefixWellFormed ==
    pfPc = "done" =>
        /\ pfResult # <<>>
        /\ Len(pfResult) <= 60
        /\ \A i \in DOMAIN pfResult : pfResult[i] \in WordChars \cup {" ", "-"}
        /\ ReducedToNothing(pfTitle) => pfResult = Recording

\* a title longer than 60 characters has been cut to 60
C11_Witness ==
    /\ pfPc = "done"
    /\ pfTitle # NoneStr
    /\ Len(pfTitle) > 60
    /\ Len(pfResult) = 60

\* the createdAt values of the lines, and those of the entries returned
CreatedAts(lines) == [i \in DOMAIN lines |-> lines[i].createdAt]

Returned == [i \in DOMAIN hsResult.entries |-> hsResult.entries[i].entry]

Valid(c) == c.form = "iso-z"

\* seq is a rearrangement of the lines of the file
IsPermutationOf(seq, lines) ==
    /\ Len(seq) = Len(lines)
    /\ \A i \in DOMAIN lines : \E j \in DOMAIN seq : seq[j] = lines[i]

\* C12 (as claimed): on a file whose lines carry createdAt values of the
\* Writer's format, missing ones or strings that do not parse, the load
\* completes without error and returns all the lines, those with a valid
\* timestamp first, in descending order, then the others
C12_SortToleratesBadTimestamps ==
    (/\ hsPc = "done"
     /\ hsLimit = NoLimit
     /\ \A i \in DOMAIN hsFile.lines :
            hsFile.lines[i].createdAt.form \in {"iso-z", "missing", "empty", "garbage"})
        => /\ hsResult.err = None
           /\ IsPermutationOf(Returned, hsFile.lines)
           /\ \A i, j \in DOMAIN Returned :
                i < j => \/ ~Valid(Returned[j].createdAt)
                         \/ /\ Valid(Returned[i].createdAt)
                            /\ Returned[i].createdAt.t >= Returned[j].createdAt.t

\* a limit that is a positive integer
PositiveInteger(limit) == limit.type = "int" /\ limit.val > 0

\* the k most recent of the lines: every line left out is no more recent
\* than any line of seq
MostRecent(seq, lines, k) ==
    /\ Len(seq) = k
    /\ \A j \in DOMAIN seq : \E i \in DOMAIN lines : lines[i] = seq[j]
    /\ \A i \in DOMAIN lines :
         (\A j \in DOMAIN seq : seq[j] # lines[i])
             => \A j \in DOMAIN seq : seq[j].createdAt.t >= lines[i].createdAt.t

\* C13 (as claimed): on a file of n lines with valid timestamps a positive
\* integer limit L gives the min(L, n) most recent entries, any other limit
\* (absent, zero, negative, not an integer) gives all n, and a missing file
\* gives no entries and no error
C13_LimitTruncates ==
    (/\ hsPc = "done"
     /\ \A i \in DOMAIN hsFile.lines : Valid(hsFile.lines[i].createdAt))
        => /\ hsResult.err = None
           /\ ~hsFile.exists => hsResult.entries = <<>>
           /\ PositiveInteger(hsLimit)
                => MostRecent(Returned, hsFile.lines,
                              Min(hsLimit.val, Len(hsFile.lines)))
           /\ ~PositiveInteger(hsLimit) => Len(Returned) = Len(hsFile.lines)

\* what reading a file back gives, the way the repository's tests read it:
\* open(p, "rb") for the audio, open(p, "r", encoding="utf-8") for the text
ReadBack(p) ==
    IF files[RealPath(p)].kind = "text" THEN TextModeRead(files[RealPath(p)].data)
    ELSE files[RealPath(p)].data

\* the file at p holds exactly `content`: as it lies on disk, or as it is
\* read back
HoldsExactly(p, content) ==
    files[RealPath(p)].data = content \/ ReadBack(p) = content

\* C14 (as claimed): after a persist that succeeds, the audio and text paths
\* it returns are files inside the returned folder, holding exactly the audio
\* bytes and exactly the transcript text it was given
C14_BundleHoldsWhatWasGiven ==
    (psPc = "done" /\ psResult.err = None)
        => LET r == psResult.result
           IN  /\ IsFile(files, r.audio)
               /\ IsFile(files, r.text)
               /\ Parent(r.audio) = r.folder
               /\ Parent(r.text) = r.folder
               /\ HoldsExactly(r.audio, psArgs.audio_bytes)
               /\ HoldsExactly(r.text, psArgs.transcript_text)

\* the text the speech-to-text model returned for the chunk of the message
\* just handled
HeardText ==
    ModelText(ConvertWebmToWavArray(B64Decode(last.frame.msg.audioChunk).bytes).pcm)

\* t is s without its leading and trailing whitespace
IsTrimOf(t, s) ==
    /\ t # <<>> => t[1] \notin SpaceChars /\ t[Len(t)] \notin SpaceChars
    /\ \E i \in 0..Len(s) : \E j \in i..Len(s) :
         /\ t = SubSeq(s, i + 1, j)
         /\ \A k \in (1..i) \cup ((j + 1)..Len(s)) : s[k] \in SpaceChars

\* the result frame among the replies to the message just handled
ResultReply ==
    LET rs == SelectSeq(RepliesFor(nread), LAMBDA fr : fr.payload.type = "result")
    IN  rs[1].payload

TranscriptionDone ==
    /\ pc = "read"
    /\ last.route = "audioChunk"
    /\ ~last.failed

\* C15: the text of a result reply is the model's text without its leading
\* and trailing whitespace, or "[Empty]" when nothing is left; it is never
\* empty, and transcript.txt holds the same text
C15_FinalText ==
    TranscriptionDone =>
        /\ ResultReply.text # <<>>
        /\ \/ IsTrimOf(ResultReply.text, HeardText)
           \/ IsTrimOf(<<>>, HeardText) /\ ResultReply.text = EmptyPlaceholder
        /\ "savedPaths" \in DOMAIN ResultReply
             => ReadBack(ResultReply.savedPaths.text) = ResultReply.text

\* a chunk of silence has been transcribed and saved as "[Empty]"
C15_Witness ==
    /\ TranscriptionDone
    /\ last.frame.msg.audioChunk = "b64:silence"
    /\ ResultReply.text = EmptyPlaceholder
    /\ "savedPaths" \in DOMAIN ResultReply
    /\ files[RealPath(ResultReply.savedPaths.text)].data = EmptyPlaceholder

\* the message whose handling has just ended
Handled(route) == pc = "read" /\ last.route = route

C17_OpenFolderMissing ==
    [][(pc = "dispatch" /\ Route(msg) = "open-folder") =>
        LET new == SubSeq(stdout', Len(stdout) + 1, Len(stdout'))
        IN  /\ (msg.path = NonePath \/ ~Exists(dirs, files, msg.path)) =>
                /\ Len(new) = 1
                /\ new[1].payload.type = "error"
                /\ opened' = opened
                /\ pc' = "read"
            /\ (IsFile(files, msg.path) /\ opened' # opened) =>
                opened' = Append(opened, Parent(msg.path))
      ]_vars

\* an open-folder for a path that does not exist has been answered with an
\* error and no folder was opened
C17_Witness ==
    /\ Handled("open-folder")
    /\ last.frame.msg.path = MissingPath
    /\ last.failed
    /\ RepliesFor(nread)[1].payload.type = "error"
    /\ opened = <<>>

\* an open-folder for a saved file has opened the folder the file is in
C17_WitnessFile ==
    /\ Handled("open-folder")
    /\ IsFile(files, last.frame.msg.path)
    /\ opened # <<>>
    /\ opened[Len(opened)] = Parent(last.frame.msg.path)

\* a complete frame that matches no transition: valid JSON that is no
\* mapping, an empty mapping, or a mapping with no recognised command and no
\* audioChunk key
MatchesNothing(fr) ==
    /\ fr.kind = "complete"
    /\ \/ fr.decode = "nonmap"
       \/ /\ fr.decode = "map"
          /\ fr.msg.command \notin NamedCommands
          /\ fr.msg.audioChunk = Absent

\* C18: neither reading nor dispatching a message that matches nothing
\* writes a frame or changes anything on disk, and the host goes back to
\* reading
C18_NoMatchNoReply ==
    [][/\ (pc = "read" /\ MatchesNothing(last'.frame)) =>
            /\ stdout' = stdout /\ outbuf' = outbuf
            /\ dirs' = dirs /\ files' = files
            /\ pc' \in {"read", "dispatch"}
       /\ (pc = "dispatch" /\ MatchesNothing(last.frame)) =>
            /\ stdout' = stdout /\ outbuf' = outbuf
            /\ dirs' = dirs /\ files' = files /\ opened' = opened
            /\ pc' = "read"
      ]_vars

\* a mapping with an unknown command has been dropped, and a payload that is
\* no mapping has been skipped, without a frame being written
C18_Witness ==
    /\ pc = "read"
    /\ MatchesNothing(last.frame)
    /\ \/ last.route = "unhandled" /\ last.frame.msg.command = "transcribe"
       \/ last.frame.decode = "nonmap"
    /\ RepliesFor(nread) = <<>>

\* C19 (as claimed): reading the end of the stream at a frame boundary ends
\* the loop without a frame being written, nothing happens after that, and
\* unless the stream is cut inside a frame the host eventually gets there
C19_CleanShutdown ==
    /\ [][(pc = "read" /\ last'.frame.kind = "eof")
            => (pc' = "done" /\ stdout' = stdout /\ outbuf' = outbuf)]_vars
    /\ [][pc # "done"]_vars
    /\ \/ <>(last.frame.kind \in {"shortprefix", "truncated"})
       \/ <>(pc = "done")

-----------------------------------------------------------------------------
(* The browser's side of stdout: it takes a 4-byte little-endian length,   *)
(* that many bytes, decodes them as UTF-8 and parses the text as JSON      *)
(* (RFC 8259, which has no NaN and no Infinity).                           *)

UnpackLE(b) == b[1] + 256 * b[2] + 65536 * b[3] + 16777216 * b[4]

\* the frames a byte sequence splits into: [ok, payloads]
RECURSIVE ReadFrames(_, _)
ReadFrames(wire, payloads) ==
    IF wire = <<>> THEN [ok |-> TRUE, payloads |-> payloads]
    ELSE IF Len(wire) < 4 \/ Len(wire) - 4 < UnpackLE(wire)
         THEN [ok |-> FALSE, payloads |-> payloads]
         ELSE ReadFrames(SubSeq(wire, 5 + UnpackLE(wire), Len(wire)),
                         Append(payloads, SubSeq(wire, 5, 4 + UnpackLE(wire))))

\* the text of a UTF-8 byte sequence, or <<"invalid">>
RECURSIVE DecodeUtf8(_)
DecodeUtf8(bytes) ==
    IF bytes = <<>> THEN <<>>
    ELSE IF Head(bytes) = 10 THEN <<"\n">> \o DecodeUtf8(Tail(bytes))
    ELSE IF Head(bytes) \in 32..126
         THEN <<Ascii[Head(bytes) - 31]>> \o DecodeUtf8(Tail(bytes))
    ELSE IF Len(bytes) > 1 /\ Head(bytes) = 195 /\ bytes[2] = 169
         THEN <<EAcute>> \o DecodeUtf8(Tail(Tail(bytes)))
    ELSE <<"invalid">>

ParseFail == [ok |-> FALSE, v |-> PyNone, rest |-> <<>>]

ParseOk(v, rest) == [ok |-> TRUE, v |-> v, rest |-> rest]

SkipWs(t) == LStrip(t, {" ", "\n"})

HexDigits == <<"0", "1", "2", "3", "4", "5", "6", "7", "8", "9", "a", "b", "c", "d", "e", "f">>

IsHex(c) == \E i \in 1..16 : HexDigits[i] = c

HexVal(c) == (CHOOSE i \in 1..16 : HexDigits[i] = c) - 1

\* the character of a \uXXXX escape, as far as the model has characters
CodePoint(h) ==
    LET n == 4096 * HexVal(h[1]) + 256 * HexVal(h[2]) + 16 * HexVal(h[3]) + HexVal(h[4])
    IN  IF n = 233 THEN EAcute
        ELSE IF n = 10 THEN "\n"
        ELSE IF n \in 32..126 THEN Ascii[n - 31]
        ELSE "U+other"

\* a JSON string from just after its opening quote
RECURSIVE ParseStringBody(_, _)
ParseStringBody(t, acc) ==
    IF t = <<>> \/ Head(t) = "\n" THEN ParseFail
    ELSE IF Head(t) = "\"" THEN ParseOk(PyStr(acc), Tail(t))
    ELSE IF Head(t) # "\\" THEN ParseStringBody(Tail(t), Append(acc, Head(t)))
    ELSE IF Len(t) < 2 THEN ParseFail
    ELSE IF t[2] \in {"\"", "\\", "/"}
         THEN ParseStringBody(SubSeq(t, 3, Len(t)), Append(acc, t[2]))
    ELSE IF t[2] = "n" THEN ParseStringBody(SubSeq(t, 3, Len(t)), Append(acc, "\n"))
    ELSE IF t[2] = "u" /\ Len(t) >= 6 /\ \A i \in 3..6 : IsHex(t[i])
         THEN ParseStringBody(SubSeq(t, 7, Len(t)),
                              Append(acc, CodePoint(SubSeq(t, 3, 6))))
    ELSE ParseFail

RECURSIVE ParseDigits(_, _)
ParseDigits(t, n) ==
    IF t # <<>> /\ \E i \in 1..10 : DigitChars[i] = Head(t)
    THEN ParseDigits(Tail(t), 10 * n + (CHOOSE i \in 1..10 : DigitChars[i] = Head(t)) - 1)
    ELSE ParseOk(PyInt(n), t)

IsDigit(t) == t # <<>> /\ \E i \in 1..10 : DigitChars[i] = Head(t)

ParseNumber(t) ==
    IF Head(t) = "-"
    THEN IF IsDigit(Tail(t))
         THEN ParseOk(PyInt(0 - ParseDigits(Tail(t), 0).v.n), ParseDigits(Tail(t), 0).rest)
         ELSE ParseFail
    ELSE ParseDigits(t, 0)

ParseLiteral(t, word, v) ==
    IF IsPrefixOf(word, t) THEN ParseOk(v, SubSeq(t, Len(word) + 1, Len(t)))
    ELSE ParseFail

RECURSIVE ParseValue(_)
RECURSIVE ParseMembers(_, _)
\* the members of an object from its first key to the closing brace
ParseMembers(t, items) ==
    IF t = <<>> \/ Head(t) # "\"" THEN ParseFail
    ELSE LET key == ParseStringBody(Tail(t), <<>>)
             colon == SkipWs(key.rest)
         IN  IF ~key.ok \/ colon = <<>> \/ Head(colon) # ":" THEN ParseFail
             ELSE LET val == ParseValue(Tail(colon))
                      more == SkipWs(val.rest)
                      sofar == Append(items, <<key.v.s, val.v>>)
                  IN  IF ~val.ok \/ more = <<>> THEN ParseFail
                      ELSE IF Head(more) = "}" THEN ParseOk(PyDict(sofar), Tail(more))
                      ELSE IF Head(more) = ","
                           THEN ParseMembers(SkipWs(Tail(more)), sofar)
                      ELSE ParseFail

ParseValue(t0) ==
    LET t == SkipWs(t0)
    IN  IF t = <<>> THEN ParseFail
        ELSE CASE Head(t) = "\"" -> ParseStringBody(Tail(t), <<>>)
               [] Head(t) = "{" ->
                    IF SkipWs(Tail(t)) # <<>> /\ Head(SkipWs(Tail(t))) = "}"
                    THEN ParseOk(PyDict(<<>>), Tail(SkipWs(Tail(t))))
                    ELSE ParseMembers(SkipWs(Tail(t)), <<>>)
               [] Head(t) = "n" -> ParseLiteral(t, <<"n", "u", "l", "l">>, PyNone)
               [] Head(t) = "t" -> ParseLiteral(t, <<"t", "r", "u", "e">>, PyBool(TRUE))
               [] Head(t) = "f" -> ParseLiteral(t, <<"f", "a", "l", "s", "e">>, PyBool(FALSE))
               [] Head(t) = "-" \/ IsDigit(t) -> ParseNumber(t)
               [] OTHER -> ParseFail

\* JSON.parse on a whole text: [ok, v]
JsonParse(text) ==
    LET r == ParseValue(text)
    IN  [ok |-> r.ok /\ SkipWs(r.rest) = <<>>, v |-> r.v]

\* the messages given to send_message that json.dumps can serialise
Serialized(sent) == SelectSeq(sent, LAMBDA m : SerializeError(m) = None)

\* the stream is whole frames, one per serialisable message and in order,
\* each holding the bytes json.dumps and encode made of its message
WholeFrames(wire, sent) ==
    /\ ReadFrames(wire, <<>>).ok
    /\ ReadFrames(wire, <<>>).payloads
         = [i \in 1..Len(Serialized(sent)) |-> EncodeUtf8(JsonText(Serialized(sent)[i]))]

\* payload p is UTF-8 JSON and reads back as message m
ReadsBack(p, m) ==
    /\ JsonParse(DecodeUtf8(p)).ok
    /\ JsonParse(DecodeUtf8(p)).v = m

\* C20 (as claimed): the bytes on stdout are always a whole number of frames,
\* each a 4-byte little-endian length and that many bytes of UTF-8 JSON that
\* read back as the message sent; a message json.dumps refuses adds no byte
\* and send_message returns
C20_OutputFraming ==
    /\ WholeFrames(smWire, smSent)
    /\ \A i \in 1..Len(Serialized(smSent)) :
        ReadsBack(ReadFrames(smWire, <<>>).payloads[i], Serialized(smSent)[i])

\* the audio or the transcript of a bundle
IsBundleFile(p) == p[Len(p)] \in {<<"audio.webm">>, <<"transcript.txt">>}

\* the step is a transcription that saved its bundle
SavesBundle ==
    /\ pc = "dispatch"
    /\ last'.route = "audioChunk"
    /\ ~last'.failed
    /\ Len(stdout') = Len(stdout) + 2

\* the folder the saved bundle was written to, as the result reply names it
SavedFolder == stdout'[Len(stdout')].payload.savedPaths.folder

\* C21 (as claimed): a persist whose bundle folder already exists fails, and
\* no step changes the audio or the transcript of a bundle written before
C21_BundlesNeverOverwritten ==
    [][/\ SavesBundle => RealPath(SavedFolder) \notin dirs
       /\ \A p \in DOMAIN files :
            IsBundleFile(p) => (p \in DOMAIN files' /\ files'[p] = files[p])]_vars

Named(p, name) == p[Len(p)] = <<name>>

Sibling(p, name) == Append(Parent(p), <<name>>)

\* the bundle folders directly under directory root that hold a transcript
BundlesUnder(f, root) ==
    {p \in DOMAIN f : Named(p, "transcript.txt") /\ Parent(Parent(p)) = root}

\* what is on disk is what the steps of a persist leave when they run in the
\* claimed order and stop at the first failure: no transcript without its
\* audio, no tab.json without a transcript below it, no history line without
\* its audio, its transcript and (for a tab) the tab.json beside it
OrderKept(f) ==
    \A p \in DOMAIN f :
        /\ Named(p, "transcript.txt") => Sibling(p, "audio.webm") \in DOMAIN f
        /\ Named(p, "tab.json") => BundlesUnder(f, Parent(p)) # {}
        /\ Named(p, "history.jsonl") =>
            \A i \in 1..Len(f[p].lines) :
                /\ RealPath(f[p].lines[i].audio) \in DOMAIN f
                /\ RealPath(f[p].lines[i].text) \in DOMAIN f
                /\ RealPath(f[p].lines[i].folder) = Parent(RealPath(f[p].lines[i].text))
                /\ Truthy(f[p].lines[i].tabUUID) => Sibling(p, "tab.json") \in DOMAIN f

HistoryFilesOf(f) == {p \in DOMAIN f : Named(p, "history.jsonl")}

\* C22: a persist leaves on disk only what its steps, taken in the order
\* folder, audio.webm, transcript.txt, tab.json, history line, have written
\* up to the first failure; one that fails adds no history line; so every
\* history line names a folder that holds its audio.webm and transcript.txt
C22_PersistInOrder ==
    [][(pc = "dispatch" /\ last'.route = "audioChunk") =>
        /\ OrderKept(files')
        /\ last'.failed =>
            /\ HistoryFilesOf(files') = HistoryFilesOf(files)
            /\ \A p \in HistoryFilesOf(files) : files'[p] = files[p]]_vars

\* a persist has stopped after audio.webm: no transcript, no history line
C22_Witness ==
    /\ pc = "read"
    /\ last.route = "audioChunk"
    /\ last.failed
    /\ HistoryFilesOf(files) = {}
    /\ \E p \in DOMAIN files :
        Named(p, "audio.webm") /\ Sibling(p, "transcript.txt") \notin DOMAIN files

\* a persist has run to its end for a tab
C22_WitnessWhole ==
    /\ pc = "read"
    /\ last.route = "audioChunk"
    /\ ~last.failed
    /\ \E p \in HistoryFilesOf(files) : Sibling(p, "tab.json") \in DOMAIN files

\* the recordings made for tab identity U that raised nothing, in order
Recorded(U) == SelectSeq(rcLog, LAMBDA c : c.tab.tabUUID = U /\ c.err = None)

\* those of them whose history append the operating system did not refuse
Logged(U) == SelectSeq(Recorded(U), LAMBDA c : c.fault # "append_history")

\* the tab identities recordings have been made for
TabIdentities ==
    {rcLog[i].tab.tabUUID : i \in {j \in 1..Len(rcLog) : Truthy(rcLog[j].tab.tabUUID)}}

TabJsonOf(U) == RealPath(MetadataPath(TabRoot(DefaultOutputDir, U)))

LastRecorded(U) == Recorded(U)[Len(Recorded(U))]

\* tab.json of U holds the latest recording of U and nothing else
TabJsonIsLatest(U) ==
    IF Recorded(U) = <<>> THEN TabJsonOf(U) \notin DOMAIN files
    ELSE /\ TabJsonOf(U) \in DOMAIN files
         /\ files[TabJsonOf(U)].data.tabUUID = U
         /\ files[TabJsonOf(U)].data.lastTitle = LastRecorded(U).tab.tabTitle
         /\ files[TabJsonOf(U)].data.lastURL = LastRecorded(U).tab.tabURL
         /\ files[TabJsonOf(U)].data.lastTabId = LastRecorded(U).tab.tabId
         /\ files[TabJsonOf(U)].data.lastRecordingFolder = LastRecorded(U).folder

\* history.jsonl of U holds one line per recording of U, in order
HistoryIsLog(U) ==
    LET lines == HistoryLines(files, HistoryPath(DefaultOutputDir, U,
                                                 TabRoot(DefaultOutputDir, U)))
    IN  /\ Len(lines) = Len(Logged(U))
        /\ \A i \in 1..Len(lines) :
            lines[i].folder = Logged(U)[i].folder /\ lines[i].tabUUID = U

\* C23 (as claimed): after any sequence of recordings, tab.json of each tab
\* identity holds the title, URL, tab id and folder of the latest successful
\* recording for it, its history.jsonl one line per recording in order, no
\* recording for another tab or for no tab changes either, and a recording
\* for no tab writes no tab.json
C23_TabFilesFollowRecordings ==
    /\ \A U \in TabIdentities : TabJsonIsLatest(U) /\ HistoryIsLog(U)
    /\ \A p \in DOMAIN files :
        Named(p, "tab.json") => \E U \in TabIdentities : p = TabJsonOf(U)

\* the exceptions of base64 decoding, audio decoding and the model
DecodeErrors == {"binascii.Error", "ValueError", "RuntimeError"}

\* the frames the step has written
NewReplies == SubSeq(stdout', Len(stdout) + 1, Len(stdout'))

\* the step is an audioChunk command that failed before anything was persisted
FailsBeforePersist ==
    /\ pc = "dispatch"
    /\ last'.route = "audioChunk"
    /\ last'.failed
    /\ NewReplies # <<>>
    /\ NewReplies[1].payload.text[2] \in DecodeErrors

====
